---- MODULE Spec2Model ----
(***************************************************************************)
(* Model of the DAC HAL driver (ra/fsp/src/r_dac/r_dac.c).                 *)
(*                                                                         *)
(* State: the caller-owned control blocks, the memory-mapped DAC           *)
(* registers the driver reads and writes, the module-stop (power) state    *)
(* changed through R_BSP_MODULE_START, the position and the locals of the  *)
(* call in progress, and the operation, handle and returned status of the  *)
(* current or most recent call.                                            *)
(*                                                                         *)
(* The API is synchronous and single threaded: a call runs to its return   *)
(* before the next one is made.  A call is a sequence of steps, so that    *)
(* the states it passes through with interrupts enabled are states of the  *)
(* model.  A step is the entry of the call with its checks, one critical   *)
(* section, or one store outside a critical section, each with the reads   *)
(* that precede it.  R_DAC_Open is its entry (checks, power-on of the      *)
(* DAC), its critical section, and one step per store that follows;        *)
(* R_DAC_Start with the output amplifier is clear data register /          *)
(* critical section / delay / critical section / revert data register;     *)
(* R_DAC_Close is its critical section and the store that marks the block  *)
(* closed.  R_DAC_Write, R_DAC_Stop and R_DAC_Start without the amplifier  *)
(* make one store or one critical section and return: one step each.       *)
(* R_DAC_VersionGet fills in the caller's version object.  A second set of *)
(* actions (OpenBegin ... Finish) splits the critical sections into the    *)
(* masking of interrupts and the load and store of DACR, against an        *)
(* interrupt handler that runs while the interrupt mask is clear.          *)
(*                                                                         *)
(* The key derivation of rm_tfm_port/ra/crypto_keys.c,                     *)
(* tfm_plat_get_huk_derived_key, is a function of its arguments, the       *)
(* unique id of the device and the hash provider; the variable huk holds   *)
(* the arguments and the results of two calls of it.                       *)
(***************************************************************************)
EXTENDS Integers, FiniteSets, Sequences, TLC

(***************************************************************************)
(* Bounds of the model.                                                    *)
(***************************************************************************)
\* The data values written are the 16-bit values (k * 0xABCD) mod 2^16, k in 0..MaxValue.
MaxValue == 1

(***************************************************************************)
(* Program constants.                                                      *)
(***************************************************************************)
DAC_OPEN == 1145127680
DAC_DAADSCR_REG_DAADST_BIT_POS == 7
DAC_DAADUSR_REG_MASK == 2
DAC_DADPR_REG_DPSEL_BIT_POS == 7
DAC_VREF_AVCC0_AVSS0 == 1
DAC_ADC_UNIT_1 == 1
\* Number of DAC channels of the device: the code distinguishes channel 0 from channel 1.
BSP_FEATURE_DAC_MAX_CHANNELS == 2
\* The driver is modelled as built with parameter checking.
DAC_CFG_PARAM_CHECKING_ENABLE == TRUE

NULL == 0
\* The caller-owned control blocks: one instance per DAC channel of the device,
\* as an application declares them.  Any block may be opened on any channel.
Blocks == 1 .. BSP_FEATURE_DAC_MAX_CHANNELS
Channels == 0 .. (BSP_FEATURE_DAC_MAX_CHANNELS - 1)
\* uint8_t channel values a caller may pass: the channels of the device and one beyond.
ChannelArgs == 0 .. BSP_FEATURE_DAC_MAX_CHANNELS
Values == {(k * 43981) % 65536 : k \in 0 .. MaxValue}

\* (uint8_t) x
U8(x) == x % 256
\* x << n for small n
Shl(x, n) == x * (2 ^ n)
BoolToInt(b) == IF b THEN 1 ELSE 0

(***************************************************************************)
(* Arguments of R_DAC_Open.                                                *)
(***************************************************************************)
NullPtr == [null |-> TRUE]
ExtendedCfgs == {[enable_charge_pump |-> e] : e \in BOOLEAN}
Cfgs ==
    [channel : ChannelArgs,
     data_format : 0 .. 1,
     ad_da_synchronized : BOOLEAN,
     output_amplifier_enabled : BOOLEAN,
     p_extend : {NullPtr} \cup ExtendedCfgs]
CfgPtrs == {NullPtr} \cup Cfgs

\* Compile-time feature flags of the board support package.
Builds ==
    [HAS_OUTPUT_AMPLIFIER : BOOLEAN,
     ADC_UNIT_1_CHANNELS : BOOLEAN,
     HAS_DAVREFCR : BOOLEAN,
     HAS_CHARGEPUMP : BOOLEAN]

VARIABLES
    bsp,     \* the feature flags the driver was compiled with
    ctrl,    \* ctrl[b]: the control block b (dac_instance_ctrl_t)
    R_DAC,   \* the DAC register block
    mstp,    \* the set of <<ip, channel>> started with R_BSP_MODULE_START
    pc,      \* position of the call in progress, "idle" between calls
    frame,   \* locals of the call in progress
    last,    \* the current or most recent call: operation, block, returned status
    primask, \* the interrupt mask of the CPU: 1 inside a critical section
    version, \* the caller's fsp_version_t that R_DAC_VersionGet fills in
    huk      \* arguments and results of calls of tfm_plat_get_huk_derived_key

vars == <<bsp, ctrl, R_DAC, mstp, pc, frame, last, primask, version, huk>>

\* The variables of the DAC driver.
dacvars == <<bsp, ctrl, R_DAC, mstp, pc, frame, last, primask, version>>

\* The status of a call that has not returned yet.
NOT_RETURNED == "running"

NoFrame == [p_ctrl |-> NULL, value |-> 0]

ResetRegisters ==
    [DACR_DAOE |-> [c \in Channels |-> 0],
     DAAMPCR_DAAMP |-> [c \in Channels |-> 0],
     DAASWCR_DAASW |-> [c \in Channels |-> 0],
     DADR |-> [c \in Channels |-> 0],
     DADPR |-> 0,
     DAADSCR |-> 0,
     DAADUSR |-> 0,
     DAVREFCR |-> 0,
     DAPC |-> 0]

\* g_dac_version: the version of the code and of the API, fixed when the driver
\* is compiled.  version_id is the four fields read as one word.
g_dac_version ==
    [api_version_minor |-> "DAC_API_VERSION_MINOR",
     api_version_major |-> "DAC_API_VERSION_MAJOR",
     code_version_major |-> "DAC_CODE_VERSION_MAJOR",
     code_version_minor |-> "DAC_CODE_VERSION_MINOR"]

\* A caller's fsp_version_t before the driver wrote to it.
NoVersion ==
    [api_version_minor |-> "unset",
     api_version_major |-> "unset",
     code_version_major |-> "unset",
     code_version_minor |-> "unset"]

ZeroCtrl == [channel |-> 0, channel_opened |-> 0, output_amplifier_enabled |-> FALSE]

\* The device whose hardware manual the driver cites (RA6M3): output amplifier
\* and ADC unit 1 present, no DAVREFCR register, no charge pump.
RA6M3 ==
    [HAS_OUTPUT_AMPLIFIER |-> TRUE,
     ADC_UNIT_1_CHANNELS |-> TRUE,
     HAS_DAVREFCR |-> FALSE,
     HAS_CHARGEPUMP |-> FALSE]

\* A device of the other kind: charge pump and DAVREFCR register present, no
\* output amplifier, no ADC unit 1.
ChargePumpBuild ==
    [HAS_OUTPUT_AMPLIFIER |-> FALSE,
     ADC_UNIT_1_CHANNELS |-> FALSE,
     HAS_DAVREFCR |-> TRUE,
     HAS_CHARGEPUMP |-> TRUE]

\* No call of tfm_plat_get_huk_derived_key is part of the behaviour.
NoHuk == [calls |-> 0]

\* The DAC after reset, no call made.
DacReset(builds) ==
    /\ bsp \in builds
    /\ ctrl = [b \in Blocks |-> ZeroCtrl]
    /\ R_DAC = ResetRegisters
    /\ mstp = {}
    /\ pc = "idle"
    /\ frame = NoFrame
    /\ last = [op |-> "none", p_ctrl |-> NULL, ret |-> "FSP_SUCCESS"]
    /\ primask = 0
    /\ version = NoVersion

InitBuild(builds) ==
    /\ DacReset(builds)
    /\ huk = NoHuk

Init == InitBuild({RA6M3})

\* A call returns: the status is recorded and no call is in progress.
Return(op, b, err) ==
    /\ pc' = "idle"
    /\ frame' = NoFrame
    /\ last' = [op |-> op, p_ctrl |-> b, ret |-> err]

\* R_BSP_MODULE_START(ip, channel)
R_BSP_MODULE_START(m, ip, channel) == m \cup {<<ip, channel>>}

(***************************************************************************)
(* R_DAC_Open                                                              *)
(***************************************************************************)
\* Faulty variant of OpenCheck: the channel_opened test is missing.
OpenCheck_NoAlreadyOpen(b, cfg) ==
    IF cfg = NullPtr THEN "FSP_ERR_ASSERTION"
    ELSE IF b = NULL THEN "FSP_ERR_ASSERTION"
    ELSE IF ~(cfg.channel < BSP_FEATURE_DAC_MAX_CHANNELS) THEN "FSP_ERR_IP_CHANNEL_NOT_PRESENT"
    ELSE IF bsp.HAS_CHARGEPUMP /\ cfg.p_extend = NullPtr THEN "FSP_ERR_ASSERTION"
    ELSE "FSP_SUCCESS"

\* Faulty variant of OpenCheck: the channel_opened test comes before the
\* channel range test.
OpenCheck_AlreadyOpenFirst(b, cfg) ==
    IF cfg = NullPtr THEN "FSP_ERR_ASSERTION"
    ELSE IF b = NULL THEN "FSP_ERR_ASSERTION"
    ELSE IF ~(ctrl[b].channel_opened = 0) THEN "FSP_ERR_ALREADY_OPEN"
    ELSE IF ~(cfg.channel < BSP_FEATURE_DAC_MAX_CHANNELS) THEN "FSP_ERR_IP_CHANNEL_NOT_PRESENT"
    ELSE IF bsp.HAS_CHARGEPUMP /\ cfg.p_extend = NullPtr THEN "FSP_ERR_ASSERTION"
    ELSE "FSP_SUCCESS"

\* Faulty variant of OpenCheck: the open test looks at the channel, through
\* every control block, instead of at the control block passed.
OpenCheck_PerChannel(b, cfg) ==
    IF cfg = NullPtr THEN "FSP_ERR_ASSERTION"
    ELSE IF b = NULL THEN "FSP_ERR_ASSERTION"
    ELSE IF ~(cfg.channel < BSP_FEATURE_DAC_MAX_CHANNELS) THEN "FSP_ERR_IP_CHANNEL_NOT_PRESENT"
    ELSE IF \E b2 \in Blocks :
               ctrl[b2].channel_opened # 0 /\ (b2 = b \/ ctrl[b2].channel = cfg.channel)
         THEN "FSP_ERR_ALREADY_OPEN"
    ELSE IF bsp.HAS_CHARGEPUMP /\ cfg.p_extend = NullPtr THEN "FSP_ERR_ASSERTION"
    ELSE "FSP_SUCCESS"

\* The parameter checks of R_DAC_Open, in order; "FSP_SUCCESS" when all pass.
OpenCheck(b, cfg) ==
    IF ~DAC_CFG_PARAM_CHECKING_ENABLE THEN "FSP_SUCCESS"
    ELSE IF cfg = NullPtr THEN "FSP_ERR_ASSERTION"
    ELSE IF b = NULL THEN "FSP_ERR_ASSERTION"
    ELSE IF ~(cfg.channel < BSP_FEATURE_DAC_MAX_CHANNELS) THEN "FSP_ERR_IP_CHANNEL_NOT_PRESENT"
    ELSE IF ~(ctrl[b].channel_opened = 0) THEN "FSP_ERR_ALREADY_OPEN"
    ELSE IF bsp.HAS_CHARGEPUMP /\ cfg.p_extend = NullPtr THEN "FSP_ERR_ASSERTION"
    ELSE "FSP_SUCCESS"

\* The DAADST bit of DAADSCR.
DAADST(r) == (r.DAADSCR \div (2 ^ DAC_DAADSCR_REG_DAADST_BIT_POS)) % 2

\* A store to DAADUSR.  The register takes the value only when ADC unit 1 is out
\* of module stop and DAADSCR.DAADST is clear; otherwise the store has no effect.
WriteDAADUSR(r, m, v) ==
    IF <<"FSP_IP_ADC", DAC_ADC_UNIT_1>> \in m /\ DAADST(r) = 0
    THEN [r EXCEPT !.DAADUSR = v]
    ELSE r

\* Locals of the R_DAC_Open call in progress.
OpenFrame(b, cfg) == [p_ctrl |-> b, value |-> 0, p_cfg |-> cfg]

\* Faulty variant of R_DAC_Open: the DAC is powered on before the parameters
\* are checked, so an error return has already touched the module stop state.
R_DAC_Open_PowerBeforeCheck(b, cfg) ==
    /\ pc = "idle"
    /\ LET err == OpenCheck(b, cfg)
           m == IF cfg = NullPtr \/ cfg.channel \notin Channels THEN mstp
                ELSE R_BSP_MODULE_START(mstp, "FSP_IP_DAC", cfg.channel)
       IN
        IF err # "FSP_SUCCESS"
        THEN /\ Return("Open", b, err)
             /\ mstp' = m
             /\ UNCHANGED <<huk, bsp, primask, version, ctrl, R_DAC>>
        ELSE /\ mstp' = m
             /\ frame' = OpenFrame(b, cfg)
             /\ pc' = "open_stop"
             /\ last' = [op |-> "Open", p_ctrl |-> b, ret |-> NOT_RETURNED]
             /\ UNCHANGED <<huk, bsp, primask, version, ctrl, R_DAC>>

\* Faulty variant of R_DAC_Open: the channel and the amplifier flag are recorded
\* in the control block before the block is found to be opened already.
R_DAC_Open_RecordsBeforeCheck(b, cfg) ==
    /\ pc = "idle"
    /\ LET err == OpenCheck(b, cfg) IN
        IF err = "FSP_ERR_ALREADY_OPEN"
        THEN /\ ctrl' = [ctrl EXCEPT ![b].channel = cfg.channel,
                                     ![b].output_amplifier_enabled = cfg.output_amplifier_enabled]
             /\ Return("Open", b, err)
             /\ UNCHANGED <<huk, bsp, primask, version, R_DAC, mstp>>
        ELSE IF err # "FSP_SUCCESS"
        THEN /\ Return("Open", b, err)
             /\ UNCHANGED <<huk, bsp, primask, version, ctrl, R_DAC, mstp>>
        ELSE /\ mstp' = R_BSP_MODULE_START(mstp, "FSP_IP_DAC", cfg.channel)
             /\ frame' = OpenFrame(b, cfg)
             /\ pc' = "open_stop"
             /\ last' = [op |-> "Open", p_ctrl |-> b, ret |-> NOT_RETURNED]
             /\ UNCHANGED <<huk, bsp, primask, version, ctrl, R_DAC>>

\* Entry of R_DAC_Open: the parameter checks, and the power-on of the DAC.
\* An error returns at once; otherwise the call goes on to its critical section.
R_DAC_Open(b, cfg) ==
    /\ pc = "idle"
    /\ LET err == OpenCheck(b, cfg) IN
        IF err # "FSP_SUCCESS"
        THEN /\ Return("Open", b, err)
             /\ UNCHANGED <<huk, bsp, primask, version, ctrl, R_DAC, mstp>>
        ELSE /\ mstp' = R_BSP_MODULE_START(mstp, "FSP_IP_DAC", cfg.channel)
             /\ frame' = OpenFrame(b, cfg)
             /\ pc' = "open_stop"
             /\ last' = [op |-> "Open", p_ctrl |-> b, ret |-> NOT_RETURNED]
             /\ UNCHANGED <<huk, bsp, primask, version, ctrl, R_DAC>>

\* Faulty variant of OpenStop: the output of the channel is not disabled.
OpenStop_KeepsOutput ==
    /\ pc = "open_stop"
    /\ pc' = "open_dadpr"
    /\ UNCHANGED <<huk, bsp, primask, version, ctrl, R_DAC, mstp, frame, last>>

\* The critical section of R_DAC_Open: stop the channel.
OpenStop ==
    /\ pc = "open_stop"
    /\ R_DAC' = [R_DAC EXCEPT !.DACR_DAOE[frame.p_cfg.channel] = 0]
    /\ pc' = "open_dadpr"
    /\ UNCHANGED <<huk, bsp, primask, version, ctrl, mstp, frame, last>>

\* Faulty variant of OpenDataFormat: the data format is written only when no
\* control block is opened, so that a format in use is not replaced.
OpenDataFormat_KeepsFormatInUse ==
    /\ pc = "open_dadpr"
    /\ R_DAC' = IF \E b \in Blocks : ctrl[b].channel_opened # 0
                THEN R_DAC
                ELSE [R_DAC EXCEPT !.DADPR =
                         U8(Shl(U8(frame.p_cfg.data_format), DAC_DADPR_REG_DPSEL_BIT_POS))]
    /\ pc' = "open_sync"
    /\ UNCHANGED <<huk, bsp, primask, version, ctrl, mstp, frame, last>>

\* The store to DADPR, the first after the critical section.
OpenDataFormat ==
    /\ pc = "open_dadpr"
    /\ R_DAC' = [R_DAC EXCEPT !.DADPR =
                    U8(Shl(U8(frame.p_cfg.data_format), DAC_DADPR_REG_DPSEL_BIT_POS))]
    /\ pc' = "open_sync"
    /\ UNCHANGED <<huk, bsp, primask, version, ctrl, mstp, frame, last>>

\* The position of R_DAC_Open at the first store the build has after the
\* DA/AD synchronisation part, after the amplifier flag, after DAVREFCR.
OpenAfterReference == IF bsp.HAS_CHARGEPUMP THEN "open_dapc" ELSE "open_channel"
OpenAfterAmplifier == IF bsp.HAS_DAVREFCR THEN "open_davrefcr" ELSE OpenAfterReference
OpenAfterSynchronization == IF bsp.HAS_OUTPUT_AMPLIFIER THEN "open_amp" ELSE OpenAfterAmplifier

\* Faulty variant of OpenSynchronization: the synchronous start bit is set
\* before the unit select register is written.
OpenSynchronization_StartBeforeSelect ==
    /\ pc = "open_sync"
    /\ IF bsp.ADC_UNIT_1_CHANNELS
       THEN IF R_DAC.DAADSCR = 0 /\ frame.p_cfg.ad_da_synchronized
            THEN /\ mstp' = R_BSP_MODULE_START(mstp, "FSP_IP_ADC", DAC_ADC_UNIT_1)
                 /\ R_DAC' = [R_DAC EXCEPT !.DAADSCR =
                                 U8(Shl(1, DAC_DAADSCR_REG_DAADST_BIT_POS))]
                 /\ pc' = "open_daadusr"
            ELSE /\ pc' = OpenAfterSynchronization
                 /\ UNCHANGED <<R_DAC, mstp>>
       ELSE /\ R_DAC' = [R_DAC EXCEPT !.DAADSCR =
                            U8(Shl(BoolToInt(frame.p_cfg.ad_da_synchronized),
                                   DAC_DAADSCR_REG_DAADST_BIT_POS))]
            /\ pc' = OpenAfterSynchronization
            /\ UNCHANGED mstp
    /\ UNCHANGED <<huk, bsp, primask, version, ctrl, frame, last>>

\* The DA/AD synchronisation part of R_DAC_Open.  With ADC unit 1: the test of
\* DAADSCR and of the configuration and, when it passes, the power-on of ADC
\* unit 1.  Without ADC unit 1: the store to DAADSCR.
OpenSynchronization ==
    /\ pc = "open_sync"
    /\ IF bsp.ADC_UNIT_1_CHANNELS
       THEN IF R_DAC.DAADSCR = 0 /\ frame.p_cfg.ad_da_synchronized
            THEN /\ mstp' = R_BSP_MODULE_START(mstp, "FSP_IP_ADC", DAC_ADC_UNIT_1)
                 /\ pc' = "open_daadusr"
                 /\ UNCHANGED R_DAC
            ELSE /\ pc' = OpenAfterSynchronization
                 /\ UNCHANGED <<R_DAC, mstp>>
       ELSE /\ R_DAC' = [R_DAC EXCEPT !.DAADSCR =
                            U8(Shl(BoolToInt(frame.p_cfg.ad_da_synchronized),
                                   DAC_DAADSCR_REG_DAADST_BIT_POS))]
            /\ pc' = OpenAfterSynchronization
            /\ UNCHANGED mstp
    /\ UNCHANGED <<huk, bsp, primask, version, ctrl, frame, last>>

\* The store to DAADUSR: ADC unit 1 is selected for synchronisation.
OpenUnitSelect ==
    /\ pc = "open_daadusr"
    /\ R_DAC' = WriteDAADUSR(R_DAC, mstp, U8(DAC_DAADUSR_REG_MASK))
    /\ pc' = "open_daadscr"
    /\ UNCHANGED <<huk, bsp, primask, version, ctrl, mstp, frame, last>>

\* The store to DAADSCR that sets the synchronous start bit.
OpenSynchronousStart ==
    /\ pc = "open_daadscr"
    /\ R_DAC' = [R_DAC EXCEPT !.DAADSCR = U8(Shl(1, DAC_DAADSCR_REG_DAADST_BIT_POS))]
    /\ pc' = OpenAfterSynchronization
    /\ UNCHANGED <<huk, bsp, primask, version, ctrl, mstp, frame, last>>

\* The store to p_ctrl->output_amplifier_enabled.
OpenAmplifier ==
    /\ pc = "open_amp"
    /\ ctrl' = [ctrl EXCEPT ![frame.p_ctrl].output_amplifier_enabled =
                                frame.p_cfg.output_amplifier_enabled]
    /\ pc' = OpenAfterAmplifier
    /\ UNCHANGED <<huk, bsp, primask, version, R_DAC, mstp, frame, last>>

\* The store to DAVREFCR.
OpenReference ==
    /\ pc = "open_davrefcr"
    /\ R_DAC' = [R_DAC EXCEPT !.DAVREFCR = U8(DAC_VREF_AVCC0_AVSS0)]
    /\ pc' = OpenAfterReference
    /\ UNCHANGED <<huk, bsp, primask, version, ctrl, mstp, frame, last>>

\* The store to DAPC.
OpenChargePump ==
    /\ pc = "open_dapc"
    /\ R_DAC' = [R_DAC EXCEPT !.DAPC = U8(BoolToInt(frame.p_cfg.p_extend.enable_charge_pump))]
    /\ pc' = "open_channel"
    /\ UNCHANGED <<huk, bsp, primask, version, ctrl, mstp, frame, last>>

\* The store to p_ctrl->channel.
OpenChannel ==
    /\ pc = "open_channel"
    /\ ctrl' = [ctrl EXCEPT ![frame.p_ctrl].channel = frame.p_cfg.channel]
    /\ pc' = "open_opened"
    /\ UNCHANGED <<huk, bsp, primask, version, R_DAC, mstp, frame, last>>

\* The store to p_ctrl->channel_opened, and the return.
OpenFinish ==
    /\ pc = "open_opened"
    /\ ctrl' = [ctrl EXCEPT ![frame.p_ctrl].channel_opened = DAC_OPEN]
    /\ Return("Open", frame.p_ctrl, "FSP_SUCCESS")
    /\ UNCHANGED <<huk, bsp, primask, version, R_DAC, mstp>>

(***************************************************************************)
(* R_DAC_Write                                                             *)
(***************************************************************************)
\* Faulty variant of HandleCheck: the channel_opened test is missing.
HandleCheck_NullOnly(b) ==
    IF b = NULL THEN "FSP_ERR_ASSERTION" ELSE "FSP_SUCCESS"

\* The checks shared by Write, Start, Stop and Close: handle not NULL, channel opened.
HandleCheck(b) ==
    IF ~DAC_CFG_PARAM_CHECKING_ENABLE THEN "FSP_SUCCESS"
    ELSE IF b = NULL THEN "FSP_ERR_ASSERTION"
    ELSE IF ctrl[b].channel_opened = 0 THEN "FSP_ERR_NOT_OPEN"
    ELSE "FSP_SUCCESS"

\* Faulty variant of R_DAC_Write: it also enables the output of the channel.
R_DAC_Write_EnablesOutput(b, value) ==
    /\ pc = "idle"
    /\ LET err == HandleCheck(b) IN
        IF err # "FSP_SUCCESS"
        THEN /\ Return("Write", b, err)
             /\ UNCHANGED <<huk, bsp, primask, version, ctrl, R_DAC, mstp>>
        ELSE /\ R_DAC' = [R_DAC EXCEPT !.DADR[ctrl[b].channel] = value,
                                      !.DACR_DAOE[ctrl[b].channel] = 1]
             /\ Return("Write", b, "FSP_SUCCESS")
             /\ UNCHANGED <<huk, bsp, primask, version, ctrl, mstp>>

R_DAC_Write(b, value) ==
    /\ pc = "idle"
    /\ LET err == HandleCheck(b) IN
        IF err # "FSP_SUCCESS"
        THEN /\ Return("Write", b, err)
             /\ UNCHANGED <<huk, bsp, primask, version, ctrl, R_DAC, mstp>>
        ELSE /\ R_DAC' = [R_DAC EXCEPT !.DADR[ctrl[b].channel] = value]
             /\ Return("Write", b, "FSP_SUCCESS")
             /\ UNCHANGED <<huk, bsp, primask, version, ctrl, mstp>>

(***************************************************************************)
(* R_DAC_Start                                                             *)
(***************************************************************************)
\* Faulty variant of StartCheck: the test of the output enable bit is missing.
StartCheck_NoInUse(b) == HandleCheck(b)

\* The checks of R_DAC_Start: handle, opened, channel not already started.
StartCheck(b) ==
    IF HandleCheck(b) # "FSP_SUCCESS" THEN HandleCheck(b)
    ELSE IF DAC_CFG_PARAM_CHECKING_ENABLE /\ R_DAC.DACR_DAOE[ctrl[b].channel] # 0
         THEN "FSP_ERR_IN_USE"
    ELSE "FSP_SUCCESS"

\* Faulty variant of R_DAC_Start: the amplifier sequence is entered with the
\* data register saved but not cleared.
R_DAC_Start_KeepsData(b) ==
    /\ pc = "idle"
    /\ LET err == StartCheck(b) IN
        IF err # "FSP_SUCCESS"
        THEN /\ Return("Start", b, err)
             /\ UNCHANGED <<huk, bsp, primask, version, ctrl, R_DAC, mstp>>
        ELSE IF bsp.HAS_OUTPUT_AMPLIFIER /\ ctrl[b].output_amplifier_enabled
        THEN /\ frame' = [p_ctrl |-> b, value |-> R_DAC.DADR[ctrl[b].channel]]
             /\ pc' = "amp_enable"
             /\ last' = [op |-> "Start", p_ctrl |-> b, ret |-> NOT_RETURNED]
             /\ UNCHANGED <<huk, bsp, primask, version, ctrl, R_DAC, mstp>>
        ELSE /\ R_DAC' = [R_DAC EXCEPT !.DACR_DAOE[ctrl[b].channel] = 1]
             /\ Return("Start", b, "FSP_SUCCESS")
             /\ UNCHANGED <<huk, bsp, primask, version, ctrl, mstp>>

\* Entry of R_DAC_Start.  Without the amplifier the call sets the output
\* enable bit and returns; with it the data register is saved and cleared.
R_DAC_Start(b) ==
    /\ pc = "idle"
    /\ LET err == StartCheck(b) IN
        IF err # "FSP_SUCCESS"
        THEN /\ Return("Start", b, err)
             /\ UNCHANGED <<huk, bsp, primask, version, ctrl, R_DAC, mstp>>
        ELSE IF bsp.HAS_OUTPUT_AMPLIFIER /\ ctrl[b].output_amplifier_enabled
        THEN /\ frame' = [p_ctrl |-> b, value |-> R_DAC.DADR[ctrl[b].channel]]
             /\ R_DAC' = [R_DAC EXCEPT !.DADR[ctrl[b].channel] = 0]
             /\ pc' = "amp_enable"
             /\ last' = [op |-> "Start", p_ctrl |-> b, ret |-> NOT_RETURNED]
             /\ UNCHANGED <<huk, bsp, primask, version, ctrl, mstp>>
        ELSE /\ R_DAC' = [R_DAC EXCEPT !.DACR_DAOE[ctrl[b].channel] = 1]
             /\ Return("Start", b, "FSP_SUCCESS")
             /\ UNCHANGED <<huk, bsp, primask, version, ctrl, mstp>>

\* First critical section of the amplifier sequence.
StartAmpEnable ==
    /\ pc = "amp_enable"
    /\ LET ch == ctrl[frame.p_ctrl].channel
           r1 == [R_DAC EXCEPT !.DACR_DAOE[ch] = 0]
           r2 == [r1 EXCEPT !.DAASWCR_DAASW[ch] = 1]
           r3 == [r2 EXCEPT !.DAAMPCR_DAAMP[ch] = 1]
           r4 == [r3 EXCEPT !.DACR_DAOE[ch] = 1]
       IN R_DAC' = r4
    /\ pc' = "delay"
    /\ UNCHANGED <<huk, bsp, primask, version, ctrl, mstp, frame, last>>

\* R_BSP_SoftwareDelay: the blocking stabilisation wait.
StartDelay ==
    /\ pc = "delay"
    /\ pc' = "amp_wait_clear"
    /\ UNCHANGED <<huk, bsp, primask, version, ctrl, R_DAC, mstp, frame, last>>

\* Faulty variant of StartClearWait: the stabilisation wait bit is left set.
StartClearWait_KeepsWait ==
    /\ pc = "amp_wait_clear"
    /\ pc' = "revert"
    /\ UNCHANGED <<huk, bsp, primask, version, ctrl, R_DAC, mstp, frame, last>>

\* Second critical section: clear the stabilisation wait bit.
StartClearWait ==
    /\ pc = "amp_wait_clear"
    /\ R_DAC' = [R_DAC EXCEPT !.DAASWCR_DAASW[ctrl[frame.p_ctrl].channel] = 0]
    /\ pc' = "revert"
    /\ UNCHANGED <<huk, bsp, primask, version, ctrl, mstp, frame, last>>

\* Faulty variant of StartRevert: the saved value is not written back.
StartRevert_NoWriteBack ==
    /\ pc = "revert"
    /\ Return("Start", frame.p_ctrl, "FSP_SUCCESS")
    /\ UNCHANGED <<huk, bsp, primask, version, ctrl, R_DAC, mstp>>

\* Revert the saved value and return.
StartRevert ==
    /\ pc = "revert"
    /\ R_DAC' = [R_DAC EXCEPT !.DADR[ctrl[frame.p_ctrl].channel] = frame.value]
    /\ Return("Start", frame.p_ctrl, "FSP_SUCCESS")
    /\ UNCHANGED <<huk, bsp, primask, version, ctrl, mstp>>

(***************************************************************************)
(* R_DAC_Stop                                                              *)
(***************************************************************************)
\* Faulty variant of R_DAC_Stop: the output enable bit is left as it is.
R_DAC_Stop_NoClear(b) ==
    /\ pc = "idle"
    /\ Return("Stop", b, HandleCheck(b))
    /\ UNCHANGED <<huk, bsp, primask, version, ctrl, R_DAC, mstp>>

R_DAC_Stop(b) ==
    /\ pc = "idle"
    /\ LET err == HandleCheck(b) IN
        IF err # "FSP_SUCCESS"
        THEN /\ Return("Stop", b, err)
             /\ UNCHANGED <<huk, bsp, primask, version, ctrl, R_DAC, mstp>>
        ELSE /\ R_DAC' = [R_DAC EXCEPT !.DACR_DAOE[ctrl[b].channel] = 0]
             /\ Return("Stop", b, "FSP_SUCCESS")
             /\ UNCHANGED <<huk, bsp, primask, version, ctrl, mstp>>

(***************************************************************************)
(* R_DAC_Close                                                             *)
(***************************************************************************)
\* Faulty variant of R_DAC_Close: the output enable bit is not cleared.
R_DAC_Close_KeepsOutput(b) ==
    /\ pc = "idle"
    /\ LET err == HandleCheck(b) IN
        IF err # "FSP_SUCCESS"
        THEN /\ Return("Close", b, err)
             /\ UNCHANGED <<huk, bsp, primask, version, ctrl, R_DAC, mstp>>
        ELSE /\ R_DAC' = [R_DAC EXCEPT !.DAAMPCR_DAAMP[ctrl[b].channel] = 0]
             /\ frame' = [p_ctrl |-> b, value |-> 0]
             /\ pc' = "close_mark"
             /\ last' = [op |-> "Close", p_ctrl |-> b, ret |-> NOT_RETURNED]
             /\ UNCHANGED <<huk, bsp, primask, version, ctrl, mstp>>

\* Faulty variant of R_DAC_Close: the whole output enable register is cleared.
R_DAC_Close_ClearsAllOutputs(b) ==
    /\ pc = "idle"
    /\ LET err == HandleCheck(b) IN
        IF err # "FSP_SUCCESS"
        THEN /\ Return("Close", b, err)
             /\ UNCHANGED <<huk, bsp, primask, version, ctrl, R_DAC, mstp>>
        ELSE /\ R_DAC' = [R_DAC EXCEPT !.DACR_DAOE = [c \in Channels |-> 0],
                                      !.DAAMPCR_DAAMP[ctrl[b].channel] = 0]
             /\ frame' = [p_ctrl |-> b, value |-> 0]
             /\ pc' = "close_mark"
             /\ last' = [op |-> "Close", p_ctrl |-> b, ret |-> NOT_RETURNED]
             /\ UNCHANGED <<huk, bsp, primask, version, ctrl, mstp>>

\* Faulty variant of R_DAC_Close: the amplifier control bit is not cleared.
R_DAC_Close_KeepsAmplifier(b) ==
    /\ pc = "idle"
    /\ LET err == HandleCheck(b) IN
        IF err # "FSP_SUCCESS"
        THEN /\ Return("Close", b, err)
             /\ UNCHANGED <<huk, bsp, primask, version, ctrl, R_DAC, mstp>>
        ELSE /\ R_DAC' = [R_DAC EXCEPT !.DACR_DAOE[ctrl[b].channel] = 0]
             /\ frame' = [p_ctrl |-> b, value |-> 0]
             /\ pc' = "close_mark"
             /\ last' = [op |-> "Close", p_ctrl |-> b, ret |-> NOT_RETURNED]
             /\ UNCHANGED <<huk, bsp, primask, version, ctrl, mstp>>

\* Entry of R_DAC_Close: the checks, and the critical section that stops the
\* channel and its amplifier.  An error returns at once.
R_DAC_Close(b) ==
    /\ pc = "idle"
    /\ LET err == HandleCheck(b) IN
        IF err # "FSP_SUCCESS"
        THEN /\ Return("Close", b, err)
             /\ UNCHANGED <<huk, bsp, primask, version, ctrl, R_DAC, mstp>>
        ELSE /\ R_DAC' = [R_DAC EXCEPT !.DACR_DAOE[ctrl[b].channel] = 0,
                                      !.DAAMPCR_DAAMP[ctrl[b].channel] = 0]
             /\ frame' = [p_ctrl |-> b, value |-> 0]
             /\ pc' = "close_mark"
             /\ last' = [op |-> "Close", p_ctrl |-> b, ret |-> NOT_RETURNED]
             /\ UNCHANGED <<huk, bsp, primask, version, ctrl, mstp>>

\* Faulty variant of CloseFinish: channel_opened is not reset.
CloseFinish_KeepsOpened ==
    /\ pc = "close_mark"
    /\ Return("Close", frame.p_ctrl, "FSP_SUCCESS")
    /\ UNCHANGED <<huk, bsp, primask, version, ctrl, R_DAC, mstp>>

\* R_DAC_Close after its critical section: the block is marked closed.
CloseFinish ==
    /\ pc = "close_mark"
    /\ ctrl' = [ctrl EXCEPT ![frame.p_ctrl].channel_opened = 0]
    /\ Return("Close", frame.p_ctrl, "FSP_SUCCESS")
    /\ UNCHANGED <<huk, bsp, primask, version, R_DAC, mstp>>

(***************************************************************************)
(* R_DAC_VersionGet                                                        *)
(***************************************************************************)
\* The fsp_version_t object of the caller, and the pointers a caller passes.
VersionObject == [object |-> "fsp_version_t"]
VersionPtrs == {NullPtr, VersionObject}

\* Faulty variant of R_DAC_VersionGet: the pointer is not checked.
R_DAC_VersionGet_NoAssert(p_version) ==
    /\ pc = "idle"
    /\ version' = IF p_version = NullPtr THEN version ELSE g_dac_version
    /\ Return("VersionGet", NULL, "FSP_SUCCESS")
    /\ UNCHANGED <<huk, bsp, primask, ctrl, R_DAC, mstp>>

R_DAC_VersionGet(p_version) ==
    /\ pc = "idle"
    /\ IF DAC_CFG_PARAM_CHECKING_ENABLE /\ p_version = NullPtr
       THEN /\ Return("VersionGet", NULL, "FSP_ERR_ASSERTION")
            /\ UNCHANGED <<huk, bsp, primask, version, ctrl, R_DAC, mstp>>
       ELSE /\ version' = g_dac_version
            /\ Return("VersionGet", NULL, "FSP_SUCCESS")
            /\ UNCHANGED <<huk, bsp, primask, ctrl, R_DAC, mstp>>

(***************************************************************************)
(* Specification                                                           *)
(***************************************************************************)
Handles == Blocks \cup {NULL}

\* The configurations passed to R_DAC_Open: p_extend is read only by a build
\* with a charge pump, other builds are given the NULL extension only.
OpenArgs ==
    {NullPtr} \cup {cfg \in Cfgs : ~bsp.HAS_CHARGEPUMP => cfg.p_extend = NullPtr}

Next ==
    \/ \E b \in Handles, cfg \in OpenArgs : R_DAC_Open(b, cfg)
    \/ OpenStop
    \/ OpenDataFormat
    \/ OpenSynchronization
    \/ OpenUnitSelect
    \/ OpenSynchronousStart
    \/ OpenAmplifier
    \/ OpenChannel
    \/ OpenFinish
    \/ \E b \in Handles, value \in Values : R_DAC_Write(b, value)
    \/ \E b \in Handles : R_DAC_Start(b)
    \/ StartAmpEnable
    \/ StartDelay
    \/ StartClearWait
    \/ StartRevert
    \/ \E b \in Handles : R_DAC_Stop(b)
    \/ \E b \in Handles : R_DAC_Close(b)
    \/ CloseFinish

Spec == Init /\ [][Next]_vars

IsOpen(b) == ctrl[b].channel_opened # 0

\* A configuration R_DAC_Open accepts on a closed block.
ValidCfg(cfg) ==
    /\ cfg # NullPtr
    /\ cfg.channel < BSP_FEATURE_DAC_MAX_CHANNELS
    /\ (bsp.HAS_CHARGEPUMP => cfg.p_extend # NullPtr)

\* Configurations with right justified data and no DA/AD synchronisation.
PlainArgs ==
    {cfg \in OpenArgs : cfg # NullPtr => (cfg.data_format = 0 /\ ~cfg.ad_da_synchronized)}

NextVersion ==
    \/ \E p_version \in VersionPtrs : R_DAC_VersionGet(p_version)
    \/ \E b \in Handles, cfg \in PlainArgs : R_DAC_Open(b, cfg)
    \/ OpenStop
    \/ OpenDataFormat
    \/ OpenSynchronization
    \/ OpenAmplifier
    \/ OpenChannel
    \/ OpenFinish
    \/ \E b \in Handles, value \in Values : R_DAC_Write(b, value)
    \/ \E b \in Handles : R_DAC_Start(b)
    \/ StartAmpEnable
    \/ StartDelay
    \/ StartClearWait
    \/ StartRevert
    \/ \E b \in Handles : R_DAC_Stop(b)
    \/ \E b \in Handles : R_DAC_Close(b)
    \/ CloseFinish

\* The API with R_DAC_VersionGet called between any two calls.
SpecVersion == Init /\ [][NextVersion]_vars

NextBuilds ==
    \/ \E b \in Handles, cfg \in PlainArgs : R_DAC_Open(b, cfg)
    \/ OpenStop
    \/ OpenDataFormat
    \/ OpenSynchronization
    \/ OpenAmplifier
    \/ OpenReference
    \/ OpenChargePump
    \/ OpenChannel
    \/ OpenFinish
    \/ \E b \in Handles, value \in Values : R_DAC_Write(b, value)
    \/ \E b \in Handles : R_DAC_Start(b)
    \/ StartAmpEnable
    \/ StartDelay
    \/ StartClearWait
    \/ StartRevert
    \/ \E b \in Handles : R_DAC_Stop(b)
    \/ \E b \in Handles : R_DAC_Close(b)
    \/ CloseFinish

\* The driver compiled for either kind of device, so that every conditionally
\* compiled part of R_DAC_Open is in one of the two builds.
SpecBuilds == InitBuild({RA6M3, ChargePumpBuild}) /\ [][NextBuilds]_vars

(***************************************************************************)
(* The calls at the grain of their critical sections, with an interrupt    *)
(* handler that toggles the output enable bit of the channel the calls do  *)
(* not use.  A bit-field store to DACR is a load of the register and a     *)
(* store of the modified value.                                            *)
(***************************************************************************)
\* The channel whose output enable bit the interrupt handler toggles.
IsrChannel == BSP_FEATURE_DAC_MAX_CHANNELS - 1

\* Configurations for a channel the interrupt handler does not use.
IsrArgs == {cfg \in OpenArgs : cfg # NullPtr => cfg.channel # IsrChannel}

\* Locals of a call that has reached its critical section: daoe is the
\* sequence of values the section stores in the output enable bit.
Call(op, b, channel, cfg, value, daoe) ==
    [op |-> op, p_ctrl |-> b, channel |-> channel, p_cfg |-> cfg, value |-> value,
     daoe |-> daoe, old_mask_level |-> 0, DACR |-> [c \in Channels |-> 0]]

Running(op, b) == last' = [op |-> op, p_ctrl |-> b, ret |-> NOT_RETURNED]

\* R_DAC_Open up to its critical section.
OpenBegin(b, cfg) ==
    /\ pc = "idle"
    /\ LET err == OpenCheck(b, cfg) IN
        IF err # "FSP_SUCCESS"
        THEN /\ Return("Open", b, err)
             /\ UNCHANGED <<huk, bsp, primask, version, ctrl, R_DAC, mstp>>
        ELSE /\ mstp' = R_BSP_MODULE_START(mstp, "FSP_IP_DAC", cfg.channel)
             /\ frame' = Call("Open", b, cfg.channel, cfg, 0, <<0>>)
             /\ pc' = "cs_enter"
             /\ Running("Open", b)
             /\ UNCHANGED <<huk, bsp, primask, version, ctrl, R_DAC>>

\* R_DAC_Start up to its first critical section.
StartBegin(b) ==
    /\ pc = "idle"
    /\ LET err == StartCheck(b) IN
        IF err # "FSP_SUCCESS"
        THEN /\ Return("Start", b, err)
             /\ UNCHANGED <<huk, bsp, primask, version, ctrl, R_DAC, mstp>>
        ELSE IF bsp.HAS_OUTPUT_AMPLIFIER /\ ctrl[b].output_amplifier_enabled
        THEN /\ frame' = Call("StartAmp", b, ctrl[b].channel, NullPtr,
                               R_DAC.DADR[ctrl[b].channel], <<0, 1>>)
             /\ R_DAC' = [R_DAC EXCEPT !.DADR[ctrl[b].channel] = 0]
             /\ pc' = "cs_enter"
             /\ Running("Start", b)
             /\ UNCHANGED <<huk, bsp, primask, version, ctrl, mstp>>
        ELSE /\ frame' = Call("Start", b, ctrl[b].channel, NullPtr, 0, <<1>>)
             /\ pc' = "cs_enter"
             /\ Running("Start", b)
             /\ UNCHANGED <<huk, bsp, primask, version, ctrl, R_DAC, mstp>>

\* Faulty variant of StopBegin: the bit-field store is not put in a critical
\* section.
StopBegin_NoCriticalSection(b) ==
    /\ pc = "idle"
    /\ LET err == HandleCheck(b) IN
        IF err # "FSP_SUCCESS"
        THEN /\ Return("Stop", b, err)
             /\ UNCHANGED <<huk, bsp, primask, version, ctrl, R_DAC, mstp>>
        ELSE /\ frame' = Call("Stop", b, ctrl[b].channel, NullPtr, 0, <<0>>)
             /\ pc' = "dacr_load"
             /\ Running("Stop", b)
             /\ UNCHANGED <<huk, bsp, primask, version, ctrl, R_DAC, mstp>>

\* R_DAC_Stop up to its critical section.
StopBegin(b) ==
    /\ pc = "idle"
    /\ LET err == HandleCheck(b) IN
        IF err # "FSP_SUCCESS"
        THEN /\ Return("Stop", b, err)
             /\ UNCHANGED <<huk, bsp, primask, version, ctrl, R_DAC, mstp>>
        ELSE /\ frame' = Call("Stop", b, ctrl[b].channel, NullPtr, 0, <<0>>)
             /\ pc' = "cs_enter"
             /\ Running("Stop", b)
             /\ UNCHANGED <<huk, bsp, primask, version, ctrl, R_DAC, mstp>>

\* R_DAC_Close up to its critical section.
CloseBegin(b) ==
    /\ pc = "idle"
    /\ LET err == HandleCheck(b) IN
        IF err # "FSP_SUCCESS"
        THEN /\ Return("Close", b, err)
             /\ UNCHANGED <<huk, bsp, primask, version, ctrl, R_DAC, mstp>>
        ELSE /\ frame' = Call("Close", b, ctrl[b].channel, NullPtr, 0, <<0>>)
             /\ pc' = "cs_enter"
             /\ Running("Close", b)
             /\ UNCHANGED <<huk, bsp, primask, version, ctrl, R_DAC, mstp>>

\* Faulty variant of CriticalSectionEnter: interrupts are not masked.
CriticalSectionEnter_NoMask ==
    /\ pc = "cs_enter"
    /\ frame' = [frame EXCEPT !.old_mask_level = primask]
    /\ pc' = "dacr_load"
    /\ UNCHANGED <<huk, bsp, primask, version, ctrl, R_DAC, mstp, last>>

\* FSP_CRITICAL_SECTION_ENTER: save the interrupt mask and mask interrupts.
CriticalSectionEnter ==
    /\ pc = "cs_enter"
    /\ frame' = [frame EXCEPT !.old_mask_level = primask]
    /\ primask' = 1
    /\ pc' = "dacr_load"
    /\ UNCHANGED <<huk, bsp, version, ctrl, R_DAC, mstp, last>>

\* The load of DACR of a bit-field store to DAOE0 or DAOE1.
DacrLoad ==
    /\ pc = "dacr_load"
    /\ frame' = [frame EXCEPT !.DACR = R_DAC.DACR_DAOE]
    /\ pc' = "dacr_store"
    /\ UNCHANGED <<huk, bsp, primask, version, ctrl, R_DAC, mstp, last>>

\* The store of DACR of a bit-field store, and the stores to DAASWCR and
\* DAAMPCR that follow it in the same critical section.
DacrStore ==
    /\ pc = "dacr_store"
    /\ LET ch == frame.channel
           r1 == [R_DAC EXCEPT !.DACR_DAOE = [frame.DACR EXCEPT ![ch] = Head(frame.daoe)]]
           r2 == IF frame.op = "StartAmp" /\ Len(frame.daoe) = 2
                 THEN [r1 EXCEPT !.DAASWCR_DAASW[ch] = 1, !.DAAMPCR_DAAMP[ch] = 1]
                 ELSE IF frame.op = "Close"
                 THEN [r1 EXCEPT !.DAAMPCR_DAAMP[ch] = 0]
                 ELSE r1
       IN R_DAC' = r2
    /\ frame' = [frame EXCEPT !.daoe = Tail(frame.daoe)]
    /\ pc' = IF Len(frame.daoe) > 1 THEN "dacr_load" ELSE "cs_exit"
    /\ UNCHANGED <<huk, bsp, primask, version, ctrl, mstp, last>>

\* FSP_CRITICAL_SECTION_EXIT: restore the saved interrupt mask.
CriticalSectionExit ==
    /\ pc = "cs_exit"
    /\ primask' = frame.old_mask_level
    /\ pc' = IF frame.op = "StartAmp" THEN "delay"
             ELSE IF frame.op = "Open" THEN "open_dadpr"
             ELSE "finish"
    /\ UNCHANGED <<huk, bsp, version, ctrl, R_DAC, mstp, frame, last>>

\* The rest of R_DAC_Start without the amplifier, R_DAC_Stop and R_DAC_Close
\* after the critical section, and the return.  R_DAC_Open goes on with
\* OpenDataFormat.
Finish ==
    /\ pc = "finish"
    /\ IF frame.op = "Close"
       THEN ctrl' = [ctrl EXCEPT ![frame.p_ctrl].channel_opened = 0]
       ELSE UNCHANGED ctrl
    /\ UNCHANGED <<R_DAC, mstp>>
    /\ Return(frame.op, frame.p_ctrl, "FSP_SUCCESS")
    /\ UNCHANGED <<huk, bsp, primask, version>>

\* The interrupt handler: taken when interrupts are not masked, it toggles
\* the output enable bit of its channel and returns.
Isr ==
    /\ primask = 0
    /\ R_DAC' = [R_DAC EXCEPT !.DACR_DAOE[IsrChannel] = 1 - @]
    /\ UNCHANGED <<huk, bsp, primask, version, ctrl, mstp, pc, frame, last>>

NextIsr ==
    \/ \E b \in Handles, cfg \in IsrArgs : OpenBegin(b, cfg)
    \/ \E b \in Handles, value \in Values : R_DAC_Write(b, value)
    \/ \E b \in Handles : StartBegin(b)
    \/ \E b \in Handles : StopBegin(b)
    \/ \E b \in Handles : CloseBegin(b)
    \/ CriticalSectionEnter
    \/ DacrLoad
    \/ DacrStore
    \/ CriticalSectionExit
    \/ StartDelay
    \/ StartClearWait
    \/ StartRevert
    \/ OpenDataFormat
    \/ OpenSynchronization
    \/ OpenUnitSelect
    \/ OpenSynchronousStart
    \/ OpenAmplifier
    \/ OpenChannel
    \/ OpenFinish
    \/ Finish
    \/ Isr

\* The calls interleaved with the interrupt handler.
SpecIsr == Init /\ [][NextIsr]_vars

(***************************************************************************)
(* tfm_plat_get_huk_derived_key (rm_tfm_port/ra/crypto_keys.c)             *)
(***************************************************************************)
SHA256_LEN_BYTES == 32
\* The labels are the byte strings of at most MaxLabel bytes.
MaxLabel == 2

ByteValues == {0, 255}
ByteStrings(n) == UNION {[1 .. k -> ByteValues] : k \in 0 .. n}
Labels == ByteStrings(MaxLabel)
\* The context buffers passed; context_size is any length within the buffer.
Contexts == {<<>>, <<0>>, <<255>>, <<0, 255>>}
\* Values of the unique id of the device returned by R_BSP_UniqueIdGet.
UniqueIds == {<<0, 255>>, <<255, 0>>}
KeySizes == {0, 1, SHA256_LEN_BYTES, SHA256_LEN_BYTES + 1}
\* The call of the hash provider that fails, "none" when all succeed.
PsaFailures ==
    {"none", "psa_hash_setup", "psa_hash_update_label", "psa_hash_update_unique_id",
     "psa_hash_finish"}

\* The SHA-256 digest of a message: byte i is a term in the message and i.
Sha256(msg) == [i \in 1 .. SHA256_LEN_BYTES |-> <<"sha256", msg, i>>]

\* The caller's key buffer of n bytes before the call.
KeyBuffer(n) == [i \in 1 .. n |-> <<"key", <<>>, i>>]

\* The loop of copy_key: i bytes left to copy, pos the place both pointers are at.
RECURSIVE copy_key_loop(_, _, _, _)
copy_key_loop(p_dst, p_src, i, pos) ==
    IF i > 0
    THEN copy_key_loop([p_dst EXCEPT ![pos] = p_src[pos]], p_src, i - 1, pos + 1)
    ELSE p_dst

copy_key(p_dst, p_src, size) == copy_key_loop(p_dst, p_src, size, 1)

\* Faulty variant of tfm_plat_get_huk_derived_key: the context is hashed
\* after the unique id.
tfm_plat_get_huk_derived_key_HashesContext(label, label_size, context, context_size, key, key_size, unique_id, psa) ==
    LET err == [status |-> "TFM_PLAT_ERR_SYSTEM_ERR", key |-> key]
        msg == SubSeq(label, 1, label_size) \o unique_id \o SubSeq(context, 1, context_size)
    IN IF key_size > SHA256_LEN_BYTES THEN err
       ELSE IF psa # "none" THEN err
       ELSE [status |-> "TFM_PLAT_ERR_SUCCESS", key |-> copy_key(key, Sha256(msg), key_size)]

\* The status returned and the key buffer after the call.  unique_id is what
\* R_BSP_UniqueIdGet returns and psa the call of the hash provider that fails.
tfm_plat_get_huk_derived_key(label, label_size, context, context_size, key, key_size, unique_id, psa) ==
    LET err == [status |-> "TFM_PLAT_ERR_SYSTEM_ERR", key |-> key]
        m1 == SubSeq(label, 1, label_size)
        m2 == m1 \o unique_id
    IN IF key_size > SHA256_LEN_BYTES THEN err
       ELSE IF psa = "psa_hash_setup" THEN err
       ELSE IF psa = "psa_hash_update_label" THEN err
       ELSE IF psa = "psa_hash_update_unique_id" THEN err
       ELSE IF psa = "psa_hash_finish" THEN err
       ELSE [status |-> "TFM_PLAT_ERR_SUCCESS", key |-> copy_key(key, Sha256(m2), key_size)]

\* A call not made yet.
NotCalled(key_size) ==
    [context |-> <<>>, context_size |-> 0, status |-> "none", key |-> KeyBuffer(key_size)]

\* The arguments other than the context, the device and the hash provider,
\* which are the same for the two calls that are compared.
HukStart ==
    {[calls |-> 0, label |-> l, label_size |-> n, unique_id |-> u, key_size |-> k,
      psa |-> f, first |-> NotCalled(k), second |-> NotCalled(k)] :
        l \in Labels, n \in 0 .. MaxLabel, u \in UniqueIds, k \in KeySizes,
        f \in PsaFailures}

InitHuk ==
    /\ DacReset({RA6M3})
    /\ huk \in {h \in HukStart : h.label_size <= Len(h.label)}

\* The result of a call with the arguments of huk and the given context.
HukResult(context, context_size) ==
    LET r == tfm_plat_get_huk_derived_key(huk.label, huk.label_size, context, context_size,
                                          KeyBuffer(huk.key_size), huk.key_size,
                                          huk.unique_id, huk.psa)
    IN [context |-> context, context_size |-> context_size,
        status |-> r.status, key |-> r.key]

HukFirstCall(context, context_size) ==
    /\ huk.calls = 0
    /\ huk' = [huk EXCEPT !.calls = 1, !.first = HukResult(context, context_size)]
    /\ UNCHANGED dacvars

HukSecondCall(context, context_size) ==
    /\ huk.calls >= 1
    /\ huk' = [huk EXCEPT !.calls = 2, !.second = HukResult(context, context_size)]
    /\ UNCHANGED dacvars

NextHuk ==
    \/ \E context \in Contexts : \E context_size \in 0 .. Len(context) :
           HukFirstCall(context, context_size)
    \/ \E context \in Contexts : \E context_size \in 0 .. Len(context) :
           HukSecondCall(context, context_size)

\* Two calls of tfm_plat_get_huk_derived_key that differ at most in the context.
SpecHuk == InitHuk /\ [][NextHuk]_vars

TypeOK ==
    /\ bsp \in Builds
    /\ pc \in {"idle", "amp_enable", "delay", "amp_wait_clear", "revert",
               "open_stop", "open_dadpr", "open_sync", "open_daadusr", "open_daadscr",
               "open_amp", "open_davrefcr", "open_dapc", "open_channel", "open_opened",
               "close_mark",
               "cs_enter", "dacr_load", "dacr_store", "cs_exit", "finish"}
    /\ \A b \in Blocks : ctrl[b].channel \in Channels /\ ctrl[b].channel_opened \in {0, DAC_OPEN}
    /\ \A c \in Channels : R_DAC.DADR[c] \in Values

(***************************************************************************)
(* Vocabulary of the properties                                            *)
(***************************************************************************)
\* No call is in progress and the last call was op on block b returning err.
Returned(op, b, err) ==
    pc = "idle" /\ last = [op |-> op, p_ctrl |-> b, ret |-> err]

\* The step is the entry of a call of op on block b.
CallOn(op, b) == pc = "idle" /\ last'.op = op /\ last'.p_ctrl = b

\* The step is the return of a call of op on block b with status err.
ReturnOf(op, b, err) ==
    pc' = "idle" /\ last' = [op |-> op, p_ctrl |-> b, ret |-> err]

\* The step belongs to a call of op on block b: it is its entry, one of its
\* steps or its return.
StepOf(op, b) == last'.op = op /\ last'.p_ctrl = b

\* The positions inside R_DAC_Start and R_DAC_Open.
StartPcs == {"amp_enable", "delay", "amp_wait_clear", "revert"}
OpenPcs ==
    {"open_stop", "open_dadpr", "open_sync", "open_daadusr", "open_daadscr",
     "open_amp", "open_davrefcr", "open_dapc", "open_channel", "open_opened"}

\* A call of R_DAC_Open that passed its checks runs to its return: every step
\* of it keeps its locals and is followed by another step or is the return of
\* FSP_SUCCESS on the block of the call.
OpenRuns ==
    pc \in OpenPcs =>
        /\ last = [op |-> "Open", p_ctrl |-> frame.p_ctrl, ret |-> NOT_RETURNED]
        /\ \/ pc' \in OpenPcs /\ pc' # pc /\ frame' = frame /\ last' = last
           \/ pc = "open_opened" /\ ReturnOf("Open", frame.p_ctrl, "FSP_SUCCESS")

\* The DPSEL bit of DADPR for a data format: 0x80 left justified, 0 right justified.
Format(data_format) == IF data_format = 1 THEN 128 ELSE 0

\* The output enable bit of the channel of block b.
DAOE(b) == R_DAC.DACR_DAOE[ctrl[b].channel]
DAAMP(b) == R_DAC.DAAMPCR_DAAMP[ctrl[b].channel]
DAASW(b) == R_DAC.DAASWCR_DAASW[ctrl[b].channel]
DADR(b) == R_DAC.DADR[ctrl[b].channel]

(***************************************************************************)
(* C1.  R_DAC_Open on a closed, zero-initialised control block with an     *)
(* in-range channel and a valid configuration passes its checks, and the   *)
(* call then runs to the return of FSP_SUCCESS, which marks the block      *)
(* opened.  An opened block stays opened through every step that is not    *)
(* the successful return of R_DAC_Close on it (Write, Start and Stop calls *)
(* included), and R_DAC_Open on an opened block with a valid configuration *)
(* returns FSP_ERR_ALREADY_OPEN.                                           *)
(***************************************************************************)
C1_OpenThenAlreadyOpen ==
    [][\A b \in Blocks :
        /\ (CallOn("Open", b) /\ ctrl[b] = ZeroCtrl)
               => \A cfg \in OpenArgs :
                      (R_DAC_Open(b, cfg) /\ ValidCfg(cfg)) =>
                          (pc' = "open_stop" /\ frame'.p_ctrl = b)
        /\ OpenRuns
        /\ ReturnOf("Open", b, "FSP_SUCCESS") => ctrl'[b].channel_opened = DAC_OPEN
        /\ (IsOpen(b) /\ ~ReturnOf("Close", b, "FSP_SUCCESS"))
               => ctrl'[b].channel_opened = DAC_OPEN
        /\ (CallOn("Open", b) /\ IsOpen(b) /\ last'.ret # "FSP_ERR_ALREADY_OPEN")
               => \A cfg \in OpenArgs : R_DAC_Open(b, cfg) => ~ValidCfg(cfg)
      ]_vars

\* A second Open returned "already open" on a block whose channel has been
\* written and started since the first Open.
C1_Witness ==
    \E b \in Blocks :
        /\ Returned("Open", b, "FSP_ERR_ALREADY_OPEN")
        /\ IsOpen(b)
        /\ DAOE(b) = 1
        /\ DADR(b) # 0

(***************************************************************************)
(* C2.  R_DAC_Write, R_DAC_Start, R_DAC_Stop and R_DAC_Close called on a   *)
(* control block that is not opened (never opened, or closed since its     *)
(* last Open) return FSP_ERR_NOT_OPEN.                                     *)
(***************************************************************************)
C2_NotOpen ==
    [][\A b \in Blocks : \A op \in {"Write", "Start", "Stop", "Close"} :
        (CallOn(op, b) /\ ~IsOpen(b)) => ReturnOf(op, b, "FSP_ERR_NOT_OPEN")
      ]_vars

\* A call returned "not open" on a block that has been opened (on channel 1)
\* and closed again: its channel field still holds 1.
C2_Witness ==
    \E b \in Blocks :
        /\ last.op \in {"Write", "Start", "Stop", "Close"}
        /\ Returned(last.op, b, "FSP_ERR_NOT_OPEN")
        /\ ~IsOpen(b)
        /\ ctrl[b].channel = 1

(***************************************************************************)
(* C3.  Once R_DAC_Start has returned FSP_SUCCESS on an opened block the   *)
(* channel of the block stays started through every step that is not a    *)
(* step of a successful R_DAC_Stop or R_DAC_Close on a block of the same   *)
(* channel and is not the critical section of an R_DAC_Open for the same   *)
(* channel; every R_DAC_Start on the block while its channel is started    *)
(* returns FSP_ERR_IN_USE, with the amplifier enabled for the block or     *)
(* not.  A Start that directly follows a successful Stop on the block      *)
(* does not fail.                                                          *)
(***************************************************************************)
Started(b) == IsOpen(b) /\ DAOE(b) = 1

\* The step is of a successful R_DAC_Stop or R_DAC_Close on a block of the
\* channel of block b: b itself or another block opened on that channel.
StopOrCloseOfChannel(b) ==
    \E b2 \in Blocks :
        /\ ctrl[b2].channel = ctrl[b].channel
        /\ \/ ReturnOf("Stop", b2, "FSP_SUCCESS")
           \/ StepOf("Close", b2) /\ last'.ret \in {"FSP_SUCCESS", NOT_RETURNED}

\* The step is the critical section (r_dac.c:124-130) of an R_DAC_Open that
\* passed its checks with a configuration for the channel of block b.
OpenOfChannel(b) ==
    /\ pc = "open_stop"
    /\ frame.p_cfg.channel = ctrl[b].channel
    /\ StepOf("Open", frame.p_ctrl)

C3_RestartInUseUnlessReopened ==
    [][\A b \in Blocks :
        /\ ReturnOf("Start", b, "FSP_SUCCESS") => Started(b)'
        /\ (Started(b) /\ ~StopOrCloseOfChannel(b) /\ ~OpenOfChannel(b)) => Started(b)'
        /\ (Started(b) /\ CallOn("Start", b)) => ReturnOf("Start", b, "FSP_ERR_IN_USE")
        /\ (Returned("Stop", b, "FSP_SUCCESS") /\ CallOn("Start", b))
              => last'.ret \in {"FSP_SUCCESS", NOT_RETURNED}
        /\ (pc # "idle" /\ pc' = "idle") => last'.ret = "FSP_SUCCESS"
      ]_vars

(***************************************************************************)
(* C3 as stated, with Stop and Close as the only calls that end the        *)
(* started state: the channel of a started block stays started through     *)
(* every step that is not a step of a successful R_DAC_Stop or R_DAC_Close *)
(* on a block of the same channel, so that every further R_DAC_Start on    *)
(* the block returns FSP_ERR_IN_USE.  An R_DAC_Open through another block  *)
(* for the same channel clears the output enable bit and falsifies it.     *)
(***************************************************************************)
C3_RestartInUse ==
    [][\A b \in Blocks :
        /\ ReturnOf("Start", b, "FSP_SUCCESS") => Started(b)'
        /\ (Started(b) /\ ~StopOrCloseOfChannel(b)) => Started(b)'
        /\ (Started(b) /\ CallOn("Start", b)) => ReturnOf("Start", b, "FSP_ERR_IN_USE")
        /\ (Returned("Stop", b, "FSP_SUCCESS") /\ CallOn("Start", b))
              => last'.ret \in {"FSP_SUCCESS", NOT_RETURNED}
        /\ (pc # "idle" /\ pc' = "idle") => last'.ret = "FSP_SUCCESS"
      ]_vars

\* Start returned "in use" on a block opened with the amplifier, whose channel
\* was started through the amplifier sequence and written since.
C3_Witness ==
    \E b \in Blocks :
        /\ Returned("Start", b, "FSP_ERR_IN_USE")
        /\ ctrl[b].output_amplifier_enabled
        /\ DAAMP(b) = 1
        /\ DADR(b) # 0

(***************************************************************************)
(* C4.  An R_DAC_Open with a valid configuration that directly follows a   *)
(* successful R_DAC_Close on the same block passes its checks, and the     *)
(* call then runs to the return of FSP_SUCCESS.                            *)
(***************************************************************************)
C4_ReopenAfterClose ==
    [][/\ \A b \in Blocks :
            (Returned("Close", b, "FSP_SUCCESS") /\ CallOn("Open", b)
                /\ last'.ret # NOT_RETURNED)
              => \A cfg \in OpenArgs : R_DAC_Open(b, cfg) => ~ValidCfg(cfg)
       /\ OpenRuns
      ]_vars

\* Open succeeded on a block that had been opened on the other channel
\* before, hence closed in between, while the other block was never used.
C4_Witness ==
    \E b \in Blocks :
        /\ Returned("Open", b, "FSP_SUCCESS")
        /\ \A b2 \in Blocks \ {b} : ctrl[b2] = ZeroCtrl
        /\ \A c \in Channels : <<"FSP_IP_DAC", c>> \in mstp

(***************************************************************************)
(* C5.  R_DAC_Start with the output amplifier: the value saved at entry is *)
(* the value of the data register of the channel, the saved value and the  *)
(* control blocks do not change while the call is in progress, and the     *)
(* call returns FSP_SUCCESS with the data register equal to the saved      *)
(* value: the data register holds on return what it held at the call.      *)
(***************************************************************************)
C5_StartRestoresData ==
    [][/\ (pc = "idle" /\ pc' \in StartPcs)
            => /\ frame'.p_ctrl \in Blocks
               /\ ctrl[frame'.p_ctrl].output_amplifier_enabled
               /\ frame'.value = DADR(frame'.p_ctrl)
       /\ (pc \in StartPcs /\ pc' # "idle")
            => (pc' \in StartPcs /\ frame' = frame /\ ctrl' = ctrl)
       /\ (pc \in StartPcs /\ pc' = "idle")
            => /\ ReturnOf("Start", frame.p_ctrl, "FSP_SUCCESS")
               /\ ctrl' = ctrl
               /\ R_DAC'.DADR[ctrl[frame.p_ctrl].channel] = frame.value
       /\ \A b \in Blocks :
            (CallOn("Start", b) /\ last'.ret = "FSP_SUCCESS") => DADR(b)' = DADR(b)
      ]_vars

\* Start returned success through the amplifier sequence with the data
\* register holding 0xABCD.
C5_Witness ==
    \E b \in Blocks :
        /\ Returned("Start", b, "FSP_SUCCESS")
        /\ ctrl[b].output_amplifier_enabled
        /\ DAAMP(b) = 1
        /\ DADR(b) = 43981

(***************************************************************************)
(* C6.  A successful R_DAC_Start leaves the output enable bit of the       *)
(* channel of the block 1, on the amplifier path and on the plain path; a  *)
(* successful R_DAC_Stop leaves it 0; R_DAC_Stop on an opened block whose  *)
(* channel is already stopped returns FSP_SUCCESS.                         *)
(***************************************************************************)
C6_StartStopOutputEnable ==
    [][\A b \in Blocks :
        /\ ReturnOf("Start", b, "FSP_SUCCESS") => DAOE(b)' = 1
        /\ ReturnOf("Stop", b, "FSP_SUCCESS") => DAOE(b)' = 0
        /\ (CallOn("Stop", b) /\ IsOpen(b) /\ DAOE(b) = 0)
              => ReturnOf("Stop", b, "FSP_SUCCESS")
      ]_vars

\* Stop returned success on a block opened with the amplifier whose channel
\* had been started through the amplifier sequence.
C6_Witness ==
    \E b \in Blocks :
        /\ Returned("Stop", b, "FSP_SUCCESS")
        /\ ctrl[b].output_amplifier_enabled
        /\ DAAMP(b) = 1
        /\ DAOE(b) = 0

(***************************************************************************)
(* C7.  A call that returns an error status returns in its first step and  *)
(* leaves the DAC registers, the module stop state and the control blocks  *)
(* as they were.                                                           *)
(***************************************************************************)
ErrorStatus ==
    {"FSP_ERR_ASSERTION", "FSP_ERR_IP_CHANNEL_NOT_PRESENT", "FSP_ERR_ALREADY_OPEN",
     "FSP_ERR_NOT_OPEN", "FSP_ERR_IN_USE"}

C7_ErrorTouchesNothing ==
    [][(pc' = "idle" /\ last'.ret # "FSP_SUCCESS")
          => /\ last'.ret \in ErrorStatus
             /\ pc = "idle"
             /\ R_DAC' = R_DAC
             /\ mstp' = mstp
             /\ ctrl' = ctrl
      ]_vars

\* Open returned "channel not present" on a closed block before the DAC was
\* ever powered on.
C7_Witness ==
    \E b \in Blocks :
        /\ Returned("Open", b, "FSP_ERR_IP_CHANNEL_NOT_PRESENT")
        /\ ~IsOpen(b)
        /\ mstp = {}

(***************************************************************************)
(* C8.  A successful R_DAC_Write(value) sets the data register of the      *)
(* channel of the block to value and changes no other register, no module  *)
(* stop state and no control block.                                        *)
(***************************************************************************)
C8_WriteFrame ==
    [][\A b \in Blocks :
        (CallOn("Write", b) /\ last'.ret = "FSP_SUCCESS")
          => /\ pc' = "idle"
             /\ ctrl' = ctrl
             /\ mstp' = mstp
             /\ R_DAC' = [R_DAC EXCEPT !.DADR[ctrl[b].channel] = R_DAC'.DADR[ctrl[b].channel]]
             /\ \A value \in Values : R_DAC_Write(b, value) => DADR(b)' = value
      ]_vars

\* Write returned success on a stopped channel, which holds the value 0xABCD
\* and is still stopped.
C8_Witness ==
    \E b \in Blocks :
        /\ Returned("Write", b, "FSP_SUCCESS")
        /\ DADR(b) = 43981
        /\ DAOE(b) = 0

(***************************************************************************)
(* C9.  After a successful R_DAC_Write the output enable bit of the        *)
(* channel of the block is 1 (the header comment of R_DAC_Write: "enable   *)
(* the output if it has not been enabled").                                *)
(***************************************************************************)
C9_WriteEnablesOutput ==
    \A b \in Blocks : Returned("Write", b, "FSP_SUCCESS") => DAOE(b) = 1

(***************************************************************************)
(* C10.  A successful R_DAC_Close leaves the output enable bit and the     *)
(* amplifier control bit of the channel of the block 0 and channel_opened  *)
(* of the block 0.                                                         *)
(***************************************************************************)
C10_CloseClears ==
    \A b \in Blocks :
        Returned("Close", b, "FSP_SUCCESS")
          => /\ DAOE(b) = 0
             /\ DAAMP(b) = 0
             /\ ctrl[b].channel_opened = 0

\* Close returned success on a block that was opened with the amplifier on
\* channel 1 and whose data register had been written.
C10_Witness ==
    \E b \in Blocks :
        /\ Returned("Close", b, "FSP_SUCCESS")
        /\ ctrl[b].output_amplifier_enabled
        /\ ctrl[b].channel = 1
        /\ DADR(b) # 0

(***************************************************************************)
(* C11.  The call of R_DAC_Open that passed its checks holds the block and *)
(* the configuration it was given until it returns, and when it returns    *)
(* FSP_SUCCESS the DAC of the configured channel is out of module stop,    *)
(* the output enable bit of that channel is 0, the data format register    *)
(* holds the configured format in its DPSEL bit (0x80 for left justified   *)
(* data, 0 for right justified), and the control block holds the channel,  *)
(* the output amplifier flag of the configuration and the opened sentinel. *)
(***************************************************************************)
C11_OpenPostState ==
    [][/\ \A b \in Blocks :
            (CallOn("Open", b) /\ last'.ret = NOT_RETURNED) =>
                \A cfg \in OpenArgs :
                    R_DAC_Open(b, cfg) => (frame'.p_ctrl = b /\ frame'.p_cfg = cfg)
       /\ OpenRuns
       /\ \A b \in Blocks :
            ReturnOf("Open", b, "FSP_SUCCESS") =>
                LET cfg == frame.p_cfg IN
                    /\ frame.p_ctrl = b
                    /\ <<"FSP_IP_DAC", cfg.channel>> \in mstp'
                    /\ R_DAC'.DACR_DAOE[cfg.channel] = 0
                    /\ R_DAC'.DADPR = (IF cfg.data_format = 1 THEN 128 ELSE 0)
                    /\ ctrl'[b].channel = cfg.channel
                    /\ ctrl'[b].output_amplifier_enabled = cfg.output_amplifier_enabled
                    /\ ctrl'[b].channel_opened = DAC_OPEN]_vars

\* A block was opened on channel 1 with left justified data and the amplifier,
\* while another opened block holds channel 1 and its data register is not 0.
C11_Witness ==
    \E b \in Blocks :
        /\ Returned("Open", b, "FSP_SUCCESS")
        /\ ctrl[b].channel = 1
        /\ ctrl[b].output_amplifier_enabled
        /\ R_DAC.DADPR = 128
        /\ R_DAC.DADR[1] # 0
        /\ \E b2 \in Blocks \ {b} : IsOpen(b2) /\ ctrl[b2].channel = 1

(***************************************************************************)
(* C13.  R_DAC_VersionGet with a pointer to an fsp_version_t returns       *)
(* FSP_SUCCESS and leaves in it the version the driver was compiled with,  *)
(* the same on every call whatever the control blocks and registers hold   *)
(* and whatever was called before; with a NULL pointer it returns          *)
(* FSP_ERR_ASSERTION and writes nothing.  No call of it changes a control  *)
(* block or a register.                                                    *)
(***************************************************************************)
C13_VersionGet ==
    [][(pc = "idle" /\ last'.op = "VersionGet") =>
        /\ \A p_version \in VersionPtrs :
               R_DAC_VersionGet(p_version) =>
                   IF p_version = NullPtr
                   THEN last'.ret = "FSP_ERR_ASSERTION" /\ version' = version
                   ELSE /\ last'.ret = "FSP_SUCCESS"
                        /\ version'.api_version_minor = "DAC_API_VERSION_MINOR"
                        /\ version'.api_version_major = "DAC_API_VERSION_MAJOR"
                        /\ version'.code_version_major = "DAC_CODE_VERSION_MAJOR"
                        /\ version'.code_version_minor = "DAC_CODE_VERSION_MINOR"
        /\ UNCHANGED <<ctrl, R_DAC, mstp>>]_vars

\* The version was read while a block was opened and started, and a later call
\* with a NULL pointer left it in place.
C13_Witness ==
    /\ Returned("VersionGet", NULL, "FSP_ERR_ASSERTION")
    /\ version = g_dac_version
    /\ \E b \in Blocks : IsOpen(b) /\ DAOE(b) = 1 /\ DADR(b) # 0

(***************************************************************************)
(* C14.  The order of the steps of R_DAC_Start with the output amplifier,  *)
(* on the channel of the call in progress: before the first critical       *)
(* section the data register is 0 and the output is still disabled; when   *)
(* the delay begins and until the second critical section the data         *)
(* register is 0 and the output enable, amplifier and stabilisation wait   *)
(* bits are all 1; when the saved value is about to be written back the    *)
(* wait bit is 0 and the data register still 0.  So the data register is   *)
(* 0 in every state of the call in which the wait bit is 1, and when the   *)
(* call has returned FSP_SUCCESS on a block with the amplifier the output  *)
(* enable and amplifier bits are 1 and the wait bit is 0.                  *)
(***************************************************************************)
C14_AmpSequence ==
    /\ pc \in StartPcs =>
          LET ch == ctrl[frame.p_ctrl].channel IN
            /\ R_DAC.DADR[ch] = 0
            /\ pc = "amp_enable" => R_DAC.DACR_DAOE[ch] = 0
            /\ pc \in {"delay", "amp_wait_clear"} =>
                  /\ R_DAC.DACR_DAOE[ch] = 1
                  /\ R_DAC.DAAMPCR_DAAMP[ch] = 1
                  /\ R_DAC.DAASWCR_DAASW[ch] = 1
            /\ pc = "revert" =>
                  /\ R_DAC.DACR_DAOE[ch] = 1
                  /\ R_DAC.DAAMPCR_DAAMP[ch] = 1
                  /\ R_DAC.DAASWCR_DAASW[ch] = 0
    /\ \A c \in Channels : R_DAC.DAASWCR_DAASW[c] = 1 => R_DAC.DADR[c] = 0
    /\ \A b \in Blocks :
          (Returned("Start", b, "FSP_SUCCESS") /\ ctrl[b].output_amplifier_enabled) =>
              (DAOE(b) = 1 /\ DAAMP(b) = 1 /\ DAASW(b) = 0)

\* The delay of a call that saved a non-zero value is running.
C14_Witness ==
    /\ pc = "delay"
    /\ frame.value # 0
    /\ DAASW(frame.p_ctrl) = 1
    /\ DADR(frame.p_ctrl) = 0

(***************************************************************************)
(* C15.  On a device with ADC unit 1, R_DAC_Open, when it comes to the     *)
(* DA/AD synchronisation part, takes ADC unit 1 out of module stop and     *)
(* goes on to the stores to DAADUSR and DAADSCR if and only if its         *)
(* configuration requests synchronisation and DAADSCR is 0 at that point.  *)
(* The power-on comes first and changes no register; the store to DAADUSR  *)
(* is made with ADC unit 1 powered and the synchronous start bit clear,    *)
(* takes effect and leaves DAADSCR as it was; the store that sets the      *)
(* start bit comes last and leaves DAADUSR selecting the unit.  No other   *)
(* step of any call changes the module stop state of the ADC or either     *)
(* register: not a failed R_DAC_Open, and not an R_DAC_Open without the    *)
(* request or with DAADSCR not 0, which does not clear a synchronisation   *)
(* set up by an earlier call.                                              *)
(***************************************************************************)
C15_Synchronization ==
    [][bsp.ADC_UNIT_1_CHANNELS =>
        /\ pc = "open_sync" =>
               IF frame.p_cfg.ad_da_synchronized /\ R_DAC.DAADSCR = 0
               THEN /\ pc' = "open_daadusr"
                    /\ <<"FSP_IP_ADC", 1>> \in mstp'
                    /\ R_DAC' = R_DAC
               ELSE /\ pc' \notin {"open_daadusr", "open_daadscr"}
                    /\ mstp' = mstp
                    /\ R_DAC' = R_DAC
        /\ pc = "open_daadusr" =>
               /\ <<"FSP_IP_ADC", 1>> \in mstp
               /\ R_DAC.DAADSCR = 0
               /\ pc' = "open_daadscr"
               /\ R_DAC'.DAADUSR = 2
               /\ R_DAC'.DAADSCR = 0
               /\ mstp' = mstp
        /\ pc = "open_daadscr" =>
               /\ R_DAC.DAADUSR = 2
               /\ R_DAC'.DAADUSR = 2
               /\ R_DAC'.DAADSCR = 128
               /\ mstp' = mstp
        /\ pc \notin {"open_sync", "open_daadusr", "open_daadscr"} =>
               /\ (<<"FSP_IP_ADC", 1>> \in mstp') = (<<"FSP_IP_ADC", 1>> \in mstp)
               /\ R_DAC'.DAADUSR = R_DAC.DAADUSR
               /\ R_DAC'.DAADSCR = R_DAC.DAADSCR
        /\ \A b \in Blocks :
               ReturnOf("Open", b, "FSP_SUCCESS") =>
                   (R_DAC'.DAADSCR = 128) = (<<"FSP_IP_ADC", 1>> \in mstp' /\ R_DAC'.DAADUSR = 2)]_vars

\* Both blocks were opened one after the other and the synchronisation set up
\* by one of the two calls is in place after the second.
C15_Witness ==
    /\ bsp.ADC_UNIT_1_CHANNELS
    /\ \E b \in Blocks : Returned("Open", b, "FSP_SUCCESS")
    /\ \A b \in Blocks : IsOpen(b)
    /\ <<"FSP_IP_ADC", 1>> \in mstp
    /\ R_DAC.DAADUSR = 2
    /\ R_DAC.DAADSCR = 128

(***************************************************************************)
(* C16.  While a control block is opened, no step other than the           *)
(* successful return of R_DAC_Close on it changes the output amplifier     *)
(* flag or the channel index it holds: not a Write, a Start (any of its    *)
(* steps), a Stop, nor an R_DAC_Open that fails on it, and no call on      *)
(* another block.                                                          *)
(***************************************************************************)
C16_CtrlFrame ==
    [][\A b \in Blocks :
        (IsOpen(b) /\ ~ReturnOf("Close", b, "FSP_SUCCESS")) =>
            /\ ctrl'[b].output_amplifier_enabled = ctrl[b].output_amplifier_enabled
            /\ ctrl'[b].channel = ctrl[b].channel]_vars

\* R_DAC_Open has just failed on a block that was opened on channel 1 with the
\* amplifier, written to and started.
C16_Witness ==
    \E b \in Blocks :
        /\ Returned("Open", b, "FSP_ERR_ALREADY_OPEN")
        /\ ctrl[b].channel = 1
        /\ ctrl[b].output_amplifier_enabled
        /\ DAOE(b) = 1
        /\ DAAMP(b) = 1
        /\ DADR(b) # 0

\* No opened control block holds channel c.
ChannelClosed(c) == \A b \in Blocks : ~(IsOpen(b) /\ ctrl[b].channel = c)

(***************************************************************************)
(* C17.  From the reset state, in every reachable state the output enable  *)
(* bit of a channel that no opened control block holds is 0 (with one      *)
(* control block per channel: the block is closed, so the bit of its       *)
(* channel is 0).  The bit of a channel goes from 0 to 1 only in a step of *)
(* a successful R_DAC_Start on an opened block of that channel, and it is  *)
(* 0 after every successful return of Stop, Close and Open on a block of   *)
(* the channel.                                                            *)
(***************************************************************************)
C17_StartedInsideOpened ==
    [][/\ \A c \in Channels :
            /\ ChannelClosed(c) => R_DAC.DACR_DAOE[c] = 0
            /\ ChannelClosed(c)' => R_DAC'.DACR_DAOE[c] = 0
            /\ (R_DAC.DACR_DAOE[c] = 0 /\ R_DAC'.DACR_DAOE[c] = 1) =>
                   \E b \in Blocks :
                       /\ IsOpen(b) /\ ctrl[b].channel = c
                       /\ \/ CallOn("Start", b) /\ ReturnOf("Start", b, "FSP_SUCCESS")
                          \/ /\ pc = "amp_enable" /\ frame.p_ctrl = b
                             /\ last = [op |-> "Start", p_ctrl |-> b, ret |-> NOT_RETURNED]
       /\ \A b \in Blocks :
            (\/ ReturnOf("Stop", b, "FSP_SUCCESS")
             \/ ReturnOf("Close", b, "FSP_SUCCESS")
             \/ ReturnOf("Open", b, "FSP_SUCCESS"))
                => R_DAC'.DACR_DAOE[ctrl'[b].channel] = 0]_vars

\* A block that was opened and written to on channel 1 has been closed while
\* the other block is opened and started on channel 0.
C17_Witness ==
    \E b \in Blocks, b2 \in Blocks :
        /\ Returned("Close", b, "FSP_SUCCESS")
        /\ ctrl[b].channel = 1
        /\ ChannelClosed(1)
        /\ R_DAC.DACR_DAOE[1] = 0
        /\ R_DAC.DADR[1] # 0
        /\ IsOpen(b2) /\ ctrl[b2].channel = 0 /\ DAOE(b2) = 1

\* The status the documented order of the checks of R_DAC_Open gives.
C18_Expected(b, cfg) ==
    IF b = NULL \/ cfg = NullPtr THEN "FSP_ERR_ASSERTION"
    ELSE IF cfg.channel >= 2 THEN "FSP_ERR_IP_CHANNEL_NOT_PRESENT"
    ELSE IF IsOpen(b) THEN "FSP_ERR_ALREADY_OPEN"
    ELSE IF bsp.HAS_CHARGEPUMP /\ cfg.p_extend = NullPtr THEN "FSP_ERR_ASSERTION"
    ELSE "FSP_SUCCESS"

(***************************************************************************)
(* C18.  With parameter checking, R_DAC_Open returns FSP_ERR_ASSERTION for *)
(* a NULL control block or configuration; otherwise                        *)
(* FSP_ERR_IP_CHANNEL_NOT_PRESENT for a channel out of range, also when    *)
(* the block is opened already; otherwise FSP_ERR_ALREADY_OPEN for an      *)
(* opened block; otherwise, on a build with a charge pump,                 *)
(* FSP_ERR_ASSERTION for a NULL extended configuration; each of these      *)
(* returns with the control blocks, the registers and the module stop      *)
(* state as they were.  Only when none of these applies does the call go   *)
(* on: it powers the DAC of the channel on, and it runs to the return of   *)
(* FSP_SUCCESS with the block marked opened.                               *)
(***************************************************************************)
C18_OpenPrecedence ==
    [][/\ \A b \in Handles :
            CallOn("Open", b) =>
                /\ \A cfg \in PlainArgs :
                       R_DAC_Open(b, cfg) =>
                           IF C18_Expected(b, cfg) = "FSP_SUCCESS"
                           THEN /\ last'.ret = NOT_RETURNED
                                /\ pc' = "open_stop"
                                /\ <<"FSP_IP_DAC", cfg.channel>> \in mstp'
                                /\ UNCHANGED <<ctrl, R_DAC>>
                           ELSE /\ ReturnOf("Open", b, C18_Expected(b, cfg))
                                /\ UNCHANGED <<ctrl, R_DAC, mstp>>
                /\ last'.ret # "FSP_SUCCESS"
       /\ OpenRuns
       /\ \A b \in Blocks :
            ReturnOf("Open", b, "FSP_SUCCESS") =>
                /\ pc = "open_opened"
                /\ ctrl'[b].channel_opened = DAC_OPEN
                /\ <<"FSP_IP_DAC", ctrl'[b].channel>> \in mstp']_vars

\* On a build with a charge pump, R_DAC_Open with an out-of-range channel has
\* just failed on a block that is opened.
C18_Witness ==
    \E b \in Blocks :
        /\ bsp.HAS_CHARGEPUMP
        /\ Returned("Open", b, "FSP_ERR_IP_CHANNEL_NOT_PRESENT")
        /\ IsOpen(b)
        /\ R_DAC.DAPC = 1

(***************************************************************************)
(* C19.  Every step of every operation called through a control block      *)
(* leaves the output enable, amplifier and stabilisation wait bits and the *)
(* data register of every channel other than the channel of the call as    *)
(* they were; a call without a control block changes no register.  The     *)
(* channel of a call of R_DAC_Open is the configured channel, the channel  *)
(* of any other call is the channel the control block holds.               *)
(***************************************************************************)
C19_OtherChannelFrame ==
    [][IF last'.p_ctrl = NULL
       THEN R_DAC' = R_DAC
       ELSE LET channel == IF pc \in OpenPcs THEN frame.p_cfg.channel
                           ELSE ctrl[last'.p_ctrl].channel
            IN \A c \in Channels \ {channel} :
                   /\ R_DAC'.DACR_DAOE[c] = R_DAC.DACR_DAOE[c]
                   /\ R_DAC'.DAAMPCR_DAAMP[c] = R_DAC.DAAMPCR_DAAMP[c]
                   /\ R_DAC'.DAASWCR_DAASW[c] = R_DAC.DAASWCR_DAASW[c]
                   /\ R_DAC'.DADR[c] = R_DAC.DADR[c]]_vars

\* One block has just been closed while the block of the other channel is
\* started with the amplifier and holds a non-zero data value.
C19_Witness ==
    \E b \in Blocks, b2 \in Blocks :
        /\ Returned("Close", b, "FSP_SUCCESS")
        /\ IsOpen(b2)
        /\ ctrl[b2].channel # ctrl[b].channel
        /\ DAOE(b2) = 1
        /\ DAAMP(b2) = 1
        /\ DADR(b2) # 0

(***************************************************************************)
(* C20.  From the reset state, the stabilisation wait bit of every channel *)
(* is 0 in every state in which no call of R_DAC_Start is in progress.  A  *)
(* bit that is 1 belongs to the channel of the R_DAC_Start call in         *)
(* progress, between its two critical sections.  R_DAC_Close, which does   *)
(* not write the bit, therefore never returns with it set.                 *)
(***************************************************************************)
C20_WaitBitOnlyInsideStart ==
    \A c \in Channels :
        R_DAC.DAASWCR_DAASW[c] = 1 =>
            /\ pc \in {"delay", "amp_wait_clear"}
            /\ last = [op |-> "Start", p_ctrl |-> frame.p_ctrl, ret |-> NOT_RETURNED]
            /\ c = ctrl[frame.p_ctrl].channel

\* A block with the amplifier was started, and the other block, also opened
\* with the amplifier, has just been closed.
C20_Witness ==
    \E b \in Blocks, b2 \in Blocks :
        /\ Returned("Close", b, "FSP_SUCCESS")
        /\ ctrl[b].output_amplifier_enabled
        /\ IsOpen(b2)
        /\ ctrl[b2].output_amplifier_enabled
        /\ DAOE(b2) = 1 /\ DAAMP(b2) = 1
        /\ \A c \in Channels : R_DAC.DAASWCR_DAASW[c] = 0

(***************************************************************************)
(* C12.  With an interrupt handler that toggles the output enable bit of   *)
(* the other channel and may run wherever interrupts are not masked: the   *)
(* load and the store of every bit-field store to DACR made by Open,       *)
(* Start, Stop and Close happen with interrupts masked; interrupts are     *)
(* masked only between the entry and the exit of a critical section of the *)
(* call in progress, and not when a call has returned; no step of a call   *)
(* changes the bit of the handler's channel, so no toggle of the handler   *)
(* is lost, and the handler changes no other bit; and the bit of the       *)
(* call's channel has the value the call stored when the call returns: 0   *)
(* after Open, Stop and Close, 1 after Start.                              *)
(***************************************************************************)
C12_CriticalSections ==
    [][/\ pc \in {"dacr_load", "dacr_store"} => primask = 1
       /\ primask' = 1 => pc' \in {"dacr_load", "dacr_store", "cs_exit"}
       /\ pc' = "idle" => primask' = 0
       /\ ~Isr => R_DAC'.DACR_DAOE[IsrChannel] = R_DAC.DACR_DAOE[IsrChannel]
       /\ Isr => \A c \in Channels \ {IsrChannel} :
                    R_DAC'.DACR_DAOE[c] = R_DAC.DACR_DAOE[c]
       /\ \A b \in Blocks :
            /\ (pc # "idle" /\ (\/ ReturnOf("Open", b, "FSP_SUCCESS")
                                \/ ReturnOf("Stop", b, "FSP_SUCCESS")
                                \/ ReturnOf("Close", b, "FSP_SUCCESS")))
                   => R_DAC'.DACR_DAOE[ctrl'[b].channel] = 0
            /\ (pc # "idle" /\ ReturnOf("Start", b, "FSP_SUCCESS"))
                   => R_DAC'.DACR_DAOE[ctrl'[b].channel] = 1]_vars

\* R_DAC_Start is at the end of its first critical section, interrupts still
\* masked, with the bit it stored and the bit the handler toggled both 1.
C12_Witness ==
    /\ pc = "cs_exit"
    /\ primask = 1
    /\ frame.op = "StartAmp"
    /\ R_DAC.DACR_DAOE[frame.channel] = 1
    /\ R_DAC.DACR_DAOE[IsrChannel] = 1

(***************************************************************************)
(* C21.  The opened test of R_DAC_Open looks at the control block, not at  *)
(* the channel.  With block A opened and started on channel c, R_DAC_Open  *)
(* on another, closed block B with a valid configuration for channel c     *)
(* passes its checks; its critical section clears the output enable bit of *)
(* c; and it returns FSP_SUCCESS with that bit 0 and B on channel c.  No   *)
(* step of the call changes the control block A, which stays opened: the   *)
(* output of A is stopped without a call on A.  An R_DAC_Start on A that   *)
(* follows this return does not return FSP_ERR_IN_USE: it returns          *)
(* FSP_SUCCESS, or has entered the amplifier sequence, which ends with     *)
(* FSP_SUCCESS.                                                            *)
(***************************************************************************)
C21_OpenIsPerBlock ==
    [][\A A \in Blocks, B \in Blocks :
        A # B =>
          /\ (CallOn("Open", B) /\ ~IsOpen(B) /\ IsOpen(A) /\ DAOE(A) = 1) =>
                 \A cfg \in OpenArgs :
                     (ValidCfg(cfg) /\ cfg.channel = ctrl[A].channel /\ R_DAC_Open(B, cfg)) =>
                         /\ last'.ret = NOT_RETURNED
                         /\ pc' = "open_stop"
                         /\ frame'.p_ctrl = B
                         /\ frame'.p_cfg = cfg
                         /\ DAOE(A)' = 1
          /\ (pc \in OpenPcs /\ frame.p_ctrl = B) =>
                 /\ OpenRuns
                 /\ ctrl'[A] = ctrl[A]
          /\ (/\ pc = "open_stop" /\ frame.p_ctrl = B
              /\ IsOpen(A) /\ frame.p_cfg.channel = ctrl[A].channel) =>
                 DAOE(A)' = 0
          /\ (/\ ReturnOf("Open", B, "FSP_SUCCESS")
              /\ IsOpen(A) /\ frame.p_cfg.channel = ctrl[A].channel) =>
                 /\ DAOE(A)' = 0
                 /\ ctrl'[B].channel = ctrl[A].channel
                 /\ IsOpen(A)' /\ IsOpen(B)'
          /\ (/\ Returned("Open", B, "FSP_SUCCESS")
              /\ IsOpen(A) /\ ctrl[A].channel = ctrl[B].channel
              /\ CallOn("Start", A)) =>
                 /\ last'.ret \in {"FSP_SUCCESS", NOT_RETURNED}
                 /\ last'.ret = "FSP_SUCCESS" => R_DAC'.DACR_DAOE[ctrl[A].channel] = 1
                 /\ last'.ret = NOT_RETURNED => pc' = "amp_enable"
          /\ (pc = "revert" /\ frame.p_ctrl = A) => ReturnOf("Start", A, "FSP_SUCCESS")]_vars

\* Block B has just been opened on the channel that the opened block A holds
\* and had started with the amplifier: the amplifier bit of the channel is
\* still 1 and its output enable bit is 0.
C21_Witness ==
    \E A \in Blocks, B \in Blocks :
        /\ A # B
        /\ Returned("Open", B, "FSP_SUCCESS")
        /\ IsOpen(A)
        /\ ctrl[A].channel = ctrl[B].channel
        /\ ctrl[A].output_amplifier_enabled
        /\ DAAMP(A) = 1
        /\ DAOE(A) = 0

(***************************************************************************)
(* C22.  There is one data format register for all channels.  Every        *)
(* R_DAC_Open that passed its checks, on any channel and whatever other    *)
(* blocks are opened or started, stores in it the data_format of its       *)
(* configuration (0x80 for 1, 0 for 0) right after its critical section,   *)
(* and returns FSP_SUCCESS with the register holding that format.  No      *)
(* other step changes the register: no Write, Start, Stop or Close and no  *)
(* failed Open.  So the register always holds the format of the most       *)
(* recent R_DAC_Open that got that far, also for a block on the other      *)
(* channel that was opened with a different format.                        *)
(***************************************************************************)
C22_SharedDataFormat ==
    [][/\ pc = "open_dadpr" => R_DAC'.DADPR = Format(frame.p_cfg.data_format)
       /\ pc # "open_dadpr" => R_DAC'.DADPR = R_DAC.DADPR
       /\ OpenRuns
       /\ \A b \in Blocks :
            ReturnOf("Open", b, "FSP_SUCCESS") =>
                R_DAC'.DADPR = Format(frame.p_cfg.data_format)]_vars

\* A block has just been opened on channel 1 with right justified data while
\* the block of channel 0 is opened, written to and started.
C22_Witness ==
    \E b \in Blocks, b2 \in Blocks :
        /\ Returned("Open", b, "FSP_SUCCESS")
        /\ ctrl[b].channel = 1
        /\ R_DAC.DADPR = 0
        /\ IsOpen(b2) /\ ctrl[b2].channel = 0 /\ DAOE(b2) = 1
        /\ R_DAC.DADR[0] # 0

(***************************************************************************)
(* C23.  tfm_plat_get_huk_derived_key does not depend on its context       *)
(* argument.  Two calls with the same label, label_size, unique id of the  *)
(* device and key_size, and with the hash provider behaving the same,      *)
(* return the same status and leave the same bytes in the key buffer,      *)
(* whatever context and context_size each is given.  With key_size at most *)
(* 32 and the hash provider succeeding the status is TFM_PLAT_ERR_SUCCESS  *)
(* and the key is the first key_size bytes of the SHA-256 digest of the    *)
(* first label_size bytes of the label followed by the unique id; with     *)
(* key_size greater than 32, or the hash provider failing, the status is   *)
(* TFM_PLAT_ERR_SYSTEM_ERR and the key buffer is as it was.                *)
(***************************************************************************)
C23_ContextIndependent ==
    /\ huk.calls = 2 =>
          /\ huk.first.status = huk.second.status
          /\ huk.first.key = huk.second.key
    /\ huk.calls >= 1 =>
          IF huk.key_size <= 32 /\ huk.psa = "none"
          THEN /\ huk.first.status = "TFM_PLAT_ERR_SUCCESS"
               /\ Len(huk.first.key) = huk.key_size
               /\ \A i \in 1 .. huk.key_size :
                      huk.first.key[i] =
                          <<"sha256", SubSeq(huk.label, 1, huk.label_size) \o huk.unique_id, i>>
          ELSE /\ huk.first.status = "TFM_PLAT_ERR_SYSTEM_ERR"
               /\ huk.first.key = KeyBuffer(huk.key_size)

\* Two calls with different contexts have returned a 32 byte key derived from
\* a label that is not empty.
C23_Witness ==
    /\ huk.calls = 2
    /\ huk.first.context # huk.second.context
    /\ huk.first.context_size # huk.second.context_size
    /\ huk.label_size > 0
    /\ huk.key_size = 32
    /\ huk.second.status = "TFM_PLAT_ERR_SUCCESS"
====
